---- MODULE Spec2Model ----
(***************************************************************************)
(* Model of src/index.ts: generateTransactions (the batcher) and           *)
(* executeTransactions (the sequential submit / reconcile / retry loop),   *)
(* together with the ledger network the loop talks to.                     *)
(*                                                                         *)
(* Every await of executeTransactions is one action; the synchronous code  *)
(* that runs between two awaits belongs to the action of the first await.  *)
(***************************************************************************)
EXTENDS Integers, Sequences, FiniteSets, TLC

VARIABLES
    \* executeTransactions: parameters and locals
    maxRetries, transactionList, results, i, attempt, success, signature,
    error, errorSignature, lastValidBlockHeight, pc,
    \* transaction.recentBlockhash of the transaction of the current iteration
    recentBlockhash,
    \* the ledger network: the blockhashes of the submissions of the current
    \* batch that it accepted (and finalizes)
    landed,
    \* history of the calls made for the current batch, and how each earlier
    \* batch went, and the number of inter-transaction delays taken
    \* (observation only: no action reads them)
    hist, how, txDelays,
    \* generateTransactions: parameters and locals
    batchSize, dropList, amount, txInstructions, numTransactions, result, genI, genPc

execVars == <<maxRetries, transactionList, results, i, attempt, success, signature,
              error, errorSignature, lastValidBlockHeight, pc, recentBlockhash, landed,
              hist, how, txDelays>>
genVars == <<batchSize, dropList, amount, txInstructions, numTransactions, result,
             genI, genPc>>
vars == <<execVars, genVars>>

----------------------------------------------------------------------------
(* Bounds of the model *)

MaxBatches == 2
MaxRetries == 1

\* longest drop list, largest batch size, and the number of iterations after
\* which a loop of generateTransactions that cannot end is cut off
MaxDrops == 4
MaxCap == 3
MaxLoop == 6

Blockhashes == {1, 2}
Heights == {1, 2}
Amounts == {1, 2}
Drops == {[owner |-> "A", address |-> "a"], [owner |-> "B", address |-> "b"]}

----------------------------------------------------------------------------
(* Text: a string is a sequence of one-character strings *)

NULL == <<>>

DigitChars == <<"0", "1", "2", "3", "4", "5", "6", "7", "8", "9">>
Digit(k) == DigitChars[k + 1]

WordChars ==
    {"a", "c", "d", "e", "f", "g", "h", "i", "k", "l", "n", "o", "p", "r", "s",
     "t", "u", "x", "C", "S", "T", "_"}
    \cup {DigitChars[k] : k \in 1..10}

Marker == <<"S", "i", "g", "n", "a", "t", "u", "r", "e", " ">>

\* /Signature (\w+)/ matches at position p
MatchAt(m, p) ==
    /\ p + Len(Marker) <= Len(m)
    /\ SubSeq(m, p, p + Len(Marker) - 1) = Marker
    /\ m[p + Len(Marker)] \in WordChars

\* the last position of the run of word characters that starts at q
RECURSIVE WordRunEnd(_, _)
WordRunEnd(m, q) ==
    IF q + 1 <= Len(m) /\ m[q + 1] \in WordChars THEN WordRunEnd(m, q + 1) ELSE q

\* error.message.match(/Signature (\w+)/), then signatureMatch[1] or null
SignatureMatch(m) ==
    LET ps == {p \in 1..Len(m) : MatchAt(m, p)} IN
    IF ps = {} THEN NULL
    ELSE LET p == CHOOSE x \in ps : \A y \in ps : x <= y
             q == p + Len(Marker)
         IN  SubSeq(m, q, WordRunEnd(m, q))

----------------------------------------------------------------------------
(* Thrown values *)

ExpiredName == "TransactionExpiredBlockheightExceededError"

NoError ==
    [kind |-> "none", name |-> "", hasSignature |-> FALSE, hasMessage |-> FALSE,
     message |-> <<>>]

ErrorObject(name, hasSig, msg) ==
    [kind |-> "object", name |-> name, hasSignature |-> hasSig, hasMessage |-> TRUE,
     message |-> msg]

\* a thrown value that is not an object
Primitive ==
    [kind |-> "primitive", name |-> "", hasSignature |-> FALSE, hasMessage |-> FALSE,
     message |-> <<>>]

isTransactionExpiredBlockheightExceededError(e) ==
    e.kind = "object" /\ e.name # "" /\ e.hasSignature /\ e.name = ExpiredName

isErrorWithMessage(e) ==
    e.kind = "object" /\ e.hasMessage

\* the signature of batch b signed over blockhash h
SigOf(b, h) == <<Digit(b + 1), Digit(h)>>

HasExpiredText == <<" ", "h", "a", "s", " ", "e", "x", "p", "i", "r", "e", "d">>

\* `Transaction ${i + 1} has expired: ...`, thrown at line 97
LocalExpiry(b) ==
    ErrorObject("Error", FALSE,
        <<"T", "r", "a", "n", "s", "a", "c", "t", "i", "o", "n", " ", Digit(b + 1)>>
        \o HasExpiredText)

\* what a failed RPC request (token, height) throws
RpcErrors ==
    {ErrorObject("Error", FALSE, <<"f", "a", "i", "l", "e", "d">>)}

\* what sendAndConfirmTransaction throws for the submission with signature s
SendErrors(s) ==
    { \* the typed expiry error, its message carrying the signature
      ErrorObject(ExpiredName, TRUE, Marker \o s \o HasExpiredText),
      \* the typed expiry error with a message that carries no id
      ErrorObject(ExpiredName, TRUE, <<"e", "x", "p", "i", "r", "e", "d">>),
      \* another error whose message carries the signature after the marker
      ErrorObject("Error", FALSE, <<"x", " ">> \o Marker \o s \o <<".">>),
      \* a confirmation timeout: 'Check signature <s>' (lower case)
      ErrorObject("Error", FALSE,
          <<"C", "h", "e", "c", "k", " ", "s", "i", "g", "n", "a", "t", "u", "r", "e", " ">>
          \o s),
      \* a thrown value that is no object with a message
      Primitive }

----------------------------------------------------------------------------
(* PromiseSettledResult *)

Fulfilled(v) == [status |-> "fulfilled", value |-> v, reason |-> NoError]
Rejected(e) == [status |-> "rejected", value |-> NULL, reason |-> e]

----------------------------------------------------------------------------
(* History of the calls made for one batch *)

NoRecon == [kind |-> "none", submitted |-> NULL, extracted |-> NULL, sends |-> 0,
            attempts |-> 0]

NoHist ==
    [attempts |-> 0, sends |-> 0, sendOk |-> 0, lookups |-> 0, lastStatus |-> "none",
     onlyExpired |-> TRUE, recon |-> NoRecon,
     \* height checks passed, the outcome of the height check of this attempt,
     \* the attempt in which the token in use was fetched, retry delays taken
     heightOk |-> 0, lastHeight |-> "none", token |-> 0, tokenAttempt |-> 0,
     retryDelays |-> 0]

\* how a batch went, from the calls made for it
Summary(h, retries) ==
    IF h.sendOk = 1 /\ h.attempts = 1 THEN "firstAttempt"
    ELSE IF h.sendOk = 0 /\ h.recon = NoRecon /\ h.attempts = retries + 1 THEN "failedAll"
    ELSE "other"

----------------------------------------------------------------------------
(* executeTransactions *)

n == Len(transactionList)

\* the code that follows the while loop, with a delay after the last batch too
AfterWhileDelayLast(idx) == IF idx < n THEN "txDelay" ELSE "returned"

\* the code that follows the while loop of batch idx (lines 158-164)
AfterWhile(idx) == IF idx < n - 1 THEN "txDelay" ELSE "returned"

\* the while condition without its test of success
WhilePcNoSuccess(idx, att, succ) ==
    IF att <= maxRetries THEN "getLatestBlockhash" ELSE AfterWhile(idx)

\* a retry that submits again without fetching a new blockhash
WhilePcReuseToken(idx, att, succ) ==
    IF att <= maxRetries /\ ~succ
      THEN (IF att = 0 THEN "getLatestBlockhash" ELSE "sendAndConfirmTransaction")
      ELSE AfterWhile(idx)

\* a loop that tests its condition only after the first attempt
WhilePcDoWhile(idx, att, succ) ==
    IF (att = 0 \/ att <= maxRetries) /\ ~succ
      THEN "getLatestBlockhash" ELSE AfterWhile(idx)

\* the while condition of line 86
WhilePc(idx, att, succ) ==
    IF att <= maxRetries /\ ~succ THEN "getLatestBlockhash" ELSE AfterWhile(idx)

\* getSignatureStatus: what the network may answer for the signature id
IsLanded(id) == \E h \in landed : SigOf(i, h) = id
Statuses(id) ==
    {"null", "processed", "confirmed"} \cup (IF IsLanded(id) THEN {"finalized"} ELSE {})

\* a test that also accepts the confirmed level
IsFinalizedLoose(st) == st \in {"confirmed", "finalized"}

\* status?.value?.confirmationStatus === "finalized" (lines 117, 133)
IsFinalized(st) == st = "finalized"

\* the exhaustion step without its push of the rejected outcome
RejectNoPush(e) ==
    /\ attempt' = attempt + 1
    /\ results' = results
    /\ pc' = IF attempt + 1 > maxRetries
               THEN WhilePc(i, attempt + 1, success) ELSE "retryDelay"
    /\ UNCHANGED success

\* the exhaustion step with >= in place of > at line 148
RejectOffByOne(e) ==
    /\ attempt' = attempt + 1
    /\ IF attempt + 1 >= maxRetries
         THEN /\ results' = Append(results, Rejected(e))
              /\ pc' = AfterWhile(i)
         ELSE /\ results' = results
              /\ pc' = "retryDelay"
    /\ UNCHANGED success

\* the exhaustion step that waits the retry delay after the last attempt too
RejectAlwaysWait(e) ==
    /\ attempt' = attempt + 1
    /\ results' = IF attempt + 1 > maxRetries
                    THEN Append(results, Rejected(e)) ELSE results
    /\ pc' = "retryDelay"
    /\ UNCHANGED success

\* lines 146-154: count the attempt, then reject or wait before the retry
Reject(e) ==
    /\ attempt' = attempt + 1
    /\ IF attempt + 1 > maxRetries
         THEN /\ results' = Append(results, Rejected(e))
              /\ pc' = WhilePc(i, attempt + 1, success)
         ELSE /\ results' = results
              /\ pc' = "retryDelay"
    /\ UNCHANGED success

\* the success path without success = true
SubmittedNoFlag(s) ==
    /\ signature' = s
    /\ success' = FALSE
    /\ results' = Append(results, Fulfilled(s))
    /\ pc' = WhilePc(i, attempt, FALSE)
    /\ UNCHANGED attempt

\* lines 107-109: the submission returned the signature s
Submitted(s) ==
    /\ signature' = s
    /\ success' = TRUE
    /\ results' = Append(results, Fulfilled(s))
    /\ pc' = WhilePc(i, attempt, TRUE)
    /\ UNCHANGED attempt

\* the reconciled path without its break: it falls through to lines 146-154
ReconciledNoBreak(v) ==
    /\ success' = TRUE
    /\ attempt' = attempt + 1
    /\ IF attempt + 1 > maxRetries
         THEN /\ results' = results \o <<Fulfilled(v), Rejected(error)>>
              /\ pc' = AfterWhile(i)
         ELSE /\ results' = Append(results, Fulfilled(v))
              /\ pc' = "retryDelay"

\* lines 118-121 and 134-137: the lookup reported finalized for the id v
Reconciled(v) ==
    /\ success' = TRUE
    /\ results' = Append(results, Fulfilled(v))
    /\ pc' = AfterWhile(i)
    /\ UNCHANGED attempt

\* the height test with >= in place of >
HeightExceededOrEqual(currentBlockHeight, lastValid) == currentBlockHeight >= lastValid

\* line 96: the token has already expired
HeightExceeded(currentBlockHeight, lastValid) == currentBlockHeight > lastValid

\* the test of line 111 without '&& signature'
ExpiredBranchNoSignature(e) == isTransactionExpiredBlockheightExceededError(e)

\* line 111: the typed expiry error with a captured signature
ExpiredBranch(e) == isTransactionExpiredBlockheightExceededError(e) /\ signature # NULL

\* lines 123-127: the id found in the message of the error, or null
ErrorSignature(e) == IF isErrorWithMessage(e) THEN SignatureMatch(e.message) ELSE NULL

\* lines 110-155, up to the first await of the handler
Catch(e) ==
    /\ error' = e
    /\ IF ExpiredBranch(e)
         THEN /\ errorSignature' = NULL
              /\ pc' = "getSignatureStatus"
              /\ UNCHANGED <<attempt, results, success>>
         ELSE IF ErrorSignature(e) # NULL
         THEN /\ errorSignature' = ErrorSignature(e)
              /\ pc' = "getSignatureStatus"
              /\ UNCHANGED <<attempt, results, success>>
         ELSE /\ errorSignature' = NULL
              /\ Reject(e)

\* the id whose status the handler looks up (line 115 or line 131)
LookupId == IF ExpiredBranch(error) THEN signature ELSE errorSignature

\* the value that line 134 logs, pushed in place of errorSignature
ReconciledValueLogged == signature

\* the value pushed when the lookup reports finalized (line 120 or line 136)
ReconciledValue == IF ExpiredBranch(error) THEN signature ELSE errorSignature

Init ==
    /\ maxRetries \in -1..MaxRetries
    /\ transactionList \in {[b \in 1..k |-> b] : k \in 0..MaxBatches}
    /\ recentBlockhash = 0
    /\ results = <<>>
    /\ i = 0
    /\ attempt = 0
    /\ success = FALSE
    /\ signature = NULL
    /\ error = NoError
    /\ errorSignature = NULL
    /\ lastValidBlockHeight = 0
    /\ pc = "start"
    /\ landed = {}
    /\ hist = NoHist
    /\ how = <<>>
    /\ txDelays = 0
    /\ batchSize = 0
    /\ dropList = <<>>
    /\ amount = 0
    /\ txInstructions = <<>>
    /\ numTransactions = [kind |-> "num", val |-> 0]
    /\ result = <<>>
    /\ genI = 0
    /\ genPc = "idle"

\* lines 79-86: the call, up to the first await
Enter ==
    /\ pc = "start"
    /\ pc' = IF n = 0 THEN "returned" ELSE WhilePc(0, 0, FALSE)
    /\ UNCHANGED <<maxRetries, transactionList, results, i, attempt, success, signature,
                   error, errorSignature, lastValidBlockHeight, recentBlockhash, landed,
                   hist, how, txDelays>>
    /\ UNCHANGED genVars

\* lines 91-92: await getLatestBlockhash()
GetLatestBlockhash ==
    /\ pc = "getLatestBlockhash"
    /\ \/ \E h \in Blockhashes, lv \in Heights :
            /\ recentBlockhash' = h
            /\ lastValidBlockHeight' = lv
            /\ pc' = "getBlockHeight"
            /\ hist' = [hist EXCEPT !.attempts = @ + 1, !.lastStatus = "none",
                                    !.lastHeight = "none", !.token = h,
                                    !.tokenAttempt = attempt + 1]
            /\ UNCHANGED <<results, attempt, success, error, errorSignature>>
       \/ \E e \in RpcErrors :
            /\ Catch(e)
            /\ hist' = [hist EXCEPT !.attempts = @ + 1, !.lastStatus = "none",
                                    !.lastHeight = "none", !.onlyExpired = FALSE]
            /\ UNCHANGED <<recentBlockhash, lastValidBlockHeight>>
    /\ UNCHANGED <<maxRetries, transactionList, i, signature, landed, how, txDelays>>
    /\ UNCHANGED genVars

\* lines 95-100: await getBlockHeight(), then the local expiry check
GetBlockHeight ==
    /\ pc = "getBlockHeight"
    /\ \/ \E currentBlockHeight \in Heights :
            /\ IF HeightExceeded(currentBlockHeight, lastValidBlockHeight)
                 THEN Catch(LocalExpiry(i))
                 ELSE /\ pc' = "sendAndConfirmTransaction"
                      /\ UNCHANGED <<results, attempt, success, error, errorSignature>>
            /\ hist' = IF currentBlockHeight > lastValidBlockHeight
                         THEN [hist EXCEPT !.onlyExpired = FALSE,
                                           !.lastHeight = "exceeded"]
                         ELSE [hist EXCEPT !.heightOk = @ + 1, !.lastHeight = "ok"]
       \/ \E e \in RpcErrors :
            /\ Catch(e)
            /\ hist' = [hist EXCEPT !.onlyExpired = FALSE]
    /\ lastValidBlockHeight' = 0
    /\ UNCHANGED <<maxRetries, transactionList, i, signature, recentBlockhash, landed, how,
                   txDelays>>
    /\ UNCHANGED genVars

\* lines 103-109: await sendAndConfirmTransaction(...)
SendAndConfirmTransaction ==
    /\ pc = "sendAndConfirmTransaction"
    /\ LET h == recentBlockhash
           s == SigOf(i, h)
       IN  \/ /\ Submitted(s)
              /\ landed' = landed \cup {h}
              /\ hist' = [hist EXCEPT !.sends = @ + 1, !.sendOk = @ + 1,
                                      !.onlyExpired = FALSE]
              /\ UNCHANGED <<error, errorSignature>>
           \/ \E e \in SendErrors(s), accepted \in BOOLEAN :
              /\ Catch(e)
              /\ landed' = IF accepted THEN landed \cup {h} ELSE landed
              /\ hist' = [hist EXCEPT
                            !.sends = @ + 1,
                            !.onlyExpired =
                                @ /\ isTransactionExpiredBlockheightExceededError(e)]
              /\ UNCHANGED signature
    /\ UNCHANGED <<maxRetries, transactionList, i, lastValidBlockHeight, recentBlockhash,
                   how, txDelays>>
    /\ UNCHANGED genVars

\* lines 115-122 and 131-139: await getSignatureStatus(...), then the rest of the handler
GetSignatureStatus ==
    /\ pc = "getSignatureStatus"
    /\ \/ \E st \in Statuses(LookupId) :
            IF IsFinalized(st)
              THEN /\ Reconciled(ReconciledValue)
                   /\ hist' = [hist EXCEPT
                         !.lookups = @ + 1,
                         !.lastStatus = st,
                         !.onlyExpired = FALSE,
                         !.recon =
                           [kind |-> IF isTransactionExpiredBlockheightExceededError(error)
                                       THEN "expired" ELSE "generic",
                            submitted |-> SigOf(i, recentBlockhash),
                            extracted |-> LookupId,
                            sends |-> hist.sends,
                            attempts |-> hist.attempts]]
              ELSE /\ Reject(error)
                   /\ hist' = [hist EXCEPT !.lookups = @ + 1, !.lastStatus = st]
       \/ \* the lookup throws inside the catch block: the call rejects
          /\ pc' = "raised"
          /\ hist' = [hist EXCEPT !.lookups = @ + 1, !.lastStatus = "threw"]
          /\ UNCHANGED <<results, attempt, success>>
    /\ UNCHANGED <<maxRetries, transactionList, i, signature, error, errorSignature,
                   lastValidBlockHeight, recentBlockhash, landed, how, txDelays>>
    /\ UNCHANGED genVars

\* line 153: the delay before the next attempt
RetryDelay ==
    /\ pc = "retryDelay"
    /\ pc' = WhilePc(i, attempt, success)
    /\ hist' = [hist EXCEPT !.retryDelays = @ + 1]
    /\ UNCHANGED <<maxRetries, transactionList, results, i, attempt, success, signature,
                   error, errorSignature, lastValidBlockHeight, recentBlockhash, landed,
                   how, txDelays>>
    /\ UNCHANGED genVars

\* the move to the next batch with attempt declared outside the for loop
TxDelayKeepAttempt ==
    /\ pc = "txDelay"
    /\ i' = i + 1
    /\ attempt' = attempt
    /\ success' = FALSE
    /\ signature' = NULL
    /\ error' = NoError
    /\ errorSignature' = NULL
    /\ pc' = WhilePc(i + 1, attempt, FALSE)
    /\ hist' = NoHist
    /\ how' = Append(how, Summary(hist, maxRetries))
    /\ txDelays' = txDelays + 1
    /\ recentBlockhash' = 0
    /\ landed' = {}
    /\ UNCHANGED <<maxRetries, transactionList, results, lastValidBlockHeight>>
    /\ UNCHANGED genVars

\* lines 159-161, then lines 81-86 for the next batch
TxDelay ==
    /\ pc = "txDelay"
    /\ i' = i + 1
    /\ attempt' = 0
    /\ success' = FALSE
    /\ signature' = NULL
    /\ error' = NoError
    /\ errorSignature' = NULL
    /\ pc' = WhilePc(i + 1, 0, FALSE)
    /\ hist' = NoHist
    /\ how' = Append(how, Summary(hist, maxRetries))
    /\ txDelays' = txDelays + 1
    /\ recentBlockhash' = 0
    /\ landed' = {}
    /\ UNCHANGED <<maxRetries, transactionList, results, lastValidBlockHeight>>
    /\ UNCHANGED genVars

----------------------------------------------------------------------------
(* generateTransactions *)

LAMPORTS_PER_SOL == 1000000000

\* SystemProgram.transfer({fromPubkey, toPubkey, lamports}) of lines 30-34
Transfer(drop, amt) ==
    [fromPubkey |-> "fromWallet", toPubkey |-> drop.owner,
     lamports |-> amt * LAMPORTS_PER_SOL]

\* a JavaScript number: an integer, Infinity or NaN
Num(k) == [kind |-> "num", val |-> k]
Infinity == [kind |-> "inf", val |-> 0]
NaN == [kind |-> "nan", val |-> 0]

\* Math.ceil(len / size) of line 37, for len >= 0
CeilDiv(len, size) ==
    IF size > 0 THEN Num((len + size - 1) \div size)
    ELSE IF size < 0 THEN Num(-(len \div (-size)))
    ELSE IF len = 0 THEN NaN
    ELSE Infinity

\* k < x of line 38
LessThan(k, x) ==
    CASE x.kind = "num" -> k < x.val
      [] x.kind = "inf" -> TRUE
      [] x.kind = "nan" -> FALSE

\* lines 42-44: the inner loop from index j (0-based) up to upperIndex
RECURSIVE AddInstructions(_, _, _, _)
AddInstructions(tx, instrs, j, upperIndex) ==
    IF j < upperIndex
      THEN AddInstructions(
               IF j + 1 <= Len(instrs) THEN Append(tx, instrs[j + 1]) ELSE tx,
               instrs, j + 1, upperIndex)
      ELSE tx

\* the transaction of iteration k with an upper index one too small
BulkTransactionShort(instrs, k, size) ==
    LET lowerIndex == k * size
        upperIndex == (k + 1) * size - 1
    IN  [instructions |-> AddInstructions(<<>>, instrs, lowerIndex, upperIndex)]

\* lines 39-44: the transaction of iteration k
BulkTransaction(instrs, k, size) ==
    LET lowerIndex == k * size
        upperIndex == (k + 1) * size
    IN  [instructions |-> AddInstructions(<<>>, instrs, lowerIndex, upperIndex)]

InitGen ==
    /\ batchSize \in -1..MaxCap
    /\ dropList \in UNION {[1..k -> Drops] : k \in 0..MaxDrops}
    /\ amount \in Amounts
    /\ txInstructions = <<>>
    /\ numTransactions = Num(0)
    /\ result = <<>>
    /\ genI = 0
    /\ genPc = "call"
    /\ maxRetries = 0
    /\ transactionList = <<>>
    /\ results = <<>>
    /\ i = 0
    /\ attempt = 0
    /\ success = FALSE
    /\ signature = NULL
    /\ error = NoError
    /\ errorSignature = NULL
    /\ lastValidBlockHeight = 0
    /\ pc = "idle"
    /\ recentBlockhash = 0
    /\ landed = {}
    /\ hist = NoHist
    /\ how = <<>>
    /\ txDelays = 0

\* lines 28-37
GenMap ==
    /\ genPc = "call"
    /\ result' = <<>>
    /\ txInstructions' = [k \in 1..Len(dropList) |-> Transfer(dropList[k], amount)]
    /\ numTransactions' = CeilDiv(Len(dropList), batchSize)
    /\ genI' = 0
    /\ genPc' = "loop"
    /\ UNCHANGED <<batchSize, dropList, amount>>
    /\ UNCHANGED execVars

\* lines 38-46: one iteration of the outer loop
GenLoop ==
    /\ genPc = "loop"
    /\ LessThan(genI, numTransactions)
    /\ numTransactions.kind = "inf" => genI < MaxLoop
    /\ result' = Append(result, BulkTransaction(txInstructions, genI, batchSize))
    /\ genI' = genI + 1
    /\ UNCHANGED <<batchSize, dropList, amount, txInstructions, numTransactions, genPc>>
    /\ UNCHANGED execVars

\* line 47
GenReturn ==
    /\ genPc = "loop"
    /\ ~LessThan(genI, numTransactions)
    /\ genPc' = "returned"
    /\ UNCHANGED <<batchSize, dropList, amount, txInstructions, numTransactions, result,
                   genI>>
    /\ UNCHANGED execVars

NextGen ==
    \/ GenMap
    \/ GenLoop
    \/ GenReturn

SpecGen == InitGen /\ [][NextGen]_vars

----------------------------------------------------------------------------

Next ==
    \/ Enter
    \/ GetLatestBlockhash
    \/ GetBlockHeight
    \/ SendAndConfirmTransaction
    \/ GetSignatureStatus
    \/ RetryDelay
    \/ TxDelay

Spec == Init /\ [][Next]_vars

----------------------------------------------------------------------------
(* Properties of executeTransactions, checked under Spec *)

NetworkCall ==
    pc \in {"getLatestBlockhash", "getBlockHeight", "sendAndConfirmTransaction",
            "getSignatureStatus"}

\* the while loop of the current batch has been left
BatchEnded == n > 0 /\ pc \in {"txDelay", "returned"}

\* C1: at most one submission of a batch is accepted and finalized by the network,
\* whatever the network does: the engine never submits a batch again after an
\* earlier submission of it was accepted.
C1_AtMostOneFinalized == Cardinality(landed) <= 1

\* C2 as stated: after executeTransactions returns, results has exactly one outcome
\* per input batch, in the order of the input.
C2_OneOutcomePerBatchAlways ==
    pc = "returned" =>
        /\ Len(results) = n
        /\ \A k \in 1..Len(results) : results[k].status \in {"fulfilled", "rejected"}

\* C2 amended: for maxRetries >= 0, after executeTransactions returns, results has
\* exactly one outcome per input batch; the outcome of batch k is appended while
\* batch k is the current one, so it stands at position k.
C2_OneOutcomePerBatch ==
    maxRetries >= 0 =>
        /\ pc = "returned" => Len(results) = n
        /\ (n > 0 /\ pc # "start") =>
               Len(results) = (IF pc \in {"txDelay", "returned"} THEN i + 1 ELSE i)
        /\ \A k \in 1..Len(results) :
               /\ results[k].status \in {"fulfilled", "rejected"}
               /\ results[k].status = "fulfilled" => results[k].value[1] = Digit(k)

C2_Witness ==
    /\ pc = "returned" /\ maxRetries >= 0 /\ n = 2 /\ Len(results) = 2
    /\ results[1].status = "fulfilled" /\ results[2].status = "rejected"

\* C3: executeTransactions never raises, whichever network call fails.
C3_NeverRaises == pc # "raised"

\* C4: when the status lookup itself fails, the attempt is counted and the batch is
\* retried (attempts remain) or recorded as rejected (attempts exhausted).
C4_LookupFailureIsRetried ==
    [][(hist'.lookups = hist.lookups + 1 /\ hist'.lastStatus = "threw") =>
          /\ attempt' = attempt + 1
          /\ IF attempt' <= maxRetries
               THEN pc' = "retryDelay"
               ELSE results' = Append(results, Rejected(error))]_vars

\* C5: when the submission raised the typed expiry error and the status lookup that
\* followed reported finalized, the outcome is fulfilled with the id of that
\* submission and no further submission is made for the batch.
C5_ExpiredThenFinalized ==
    hist.recon.kind = "expired" =>
        /\ pc \in {"txDelay", "returned"}
        /\ Len(results) = i + 1
        /\ results[i + 1] = Fulfilled(hist.recon.submitted)
        /\ hist.sends = hist.recon.sends

C5_Witness ==
    /\ hist.recon.kind = "expired" /\ pc = "returned" /\ attempt < maxRetries
    /\ results[i + 1].status = "fulfilled"

\* C6: when the submission raised a generic error whose message carries an id after
\* the marker 'Signature' and the lookup of that id reported finalized, the outcome
\* is fulfilled with the extracted id, and the retry loop stops at once: no attempt
\* is counted and no retry is used.
C6_EmbeddedIdFinalized ==
    hist.recon.kind = "generic" =>
        /\ pc \in {"txDelay", "returned"}
        /\ Len(results) = i + 1
        /\ results[i + 1] = Fulfilled(SignatureMatch(error.message))
        /\ hist.attempts = hist.recon.attempts
        /\ hist.sends = hist.recon.sends
        /\ attempt = hist.attempts - 1

C6_Witness ==
    /\ hist.recon.kind = "generic" /\ pc = "txDelay" /\ attempt = 0 /\ maxRetries = 1
    /\ results[i + 1].value = SigOf(i, recentBlockhash)

\* C7: when every attempt of a batch was a submission that raised the typed expiry
\* error and no lookup reported finalized, then for maxRetries >= 0 the batch was
\* submitted exactly maxRetries + 1 times and its outcome is rejected with the
\* error of the last attempt.
C7_AllExpiredRejected ==
    (maxRetries >= 0 /\ BatchEnded /\ hist.onlyExpired) =>
        /\ hist.sends = maxRetries + 1
        /\ hist.attempts = maxRetries + 1
        /\ Len(results) = i + 1
        /\ results[i + 1] = Rejected(error)
        /\ isTransactionExpiredBlockheightExceededError(error)

C7_Witness ==
    /\ maxRetries = 1 /\ BatchEnded /\ hist.onlyExpired
    /\ hist.sends = 2 /\ hist.lookups >= 1
    /\ results[i + 1].status = "rejected"

\* C8: when the submission succeeds on the first attempt, the outcome is fulfilled
\* with the returned id and no status lookup is made for the batch.
C8_FirstAttemptSuccess ==
    (hist.sendOk = 1 /\ hist.attempts = 1) =>
        /\ pc \in {"txDelay", "returned"}
        /\ Len(results) = i + 1
        /\ results[i + 1] = Fulfilled(SigOf(i, recentBlockhash))
        /\ hist.lookups = 0
        /\ hist.sends = 1

C8_Witness ==
    /\ hist.sendOk = 1 /\ hist.attempts = 1 /\ pc = "txDelay"
    /\ results[i + 1].status = "fulfilled"

\* C9: batches run strictly one after the other: during every network call for
\* batch i, each earlier batch has its outcome and batch i has none; and for two
\* batches of which the first fails all its attempts and the second succeeds on its
\* first attempt the result is [rejected, fulfilled].
C9_Sequential ==
    /\ NetworkCall => (Len(results) = i /\ Len(how) = i)
    /\ (pc = "returned" /\ n = 2 /\ maxRetries >= 0 /\ how = <<"failedAll">>
        /\ Summary(hist, maxRetries) = "firstAttempt") =>
           /\ Len(results) = 2
           /\ results[1].status = "rejected"
           /\ results[2].status = "fulfilled"

C9_Witness ==
    /\ pc = "returned" /\ n = 2 /\ maxRetries = 1 /\ how = <<"failedAll">>
    /\ Summary(hist, maxRetries) = "firstAttempt"
    /\ Len(results) = 2

\* C12: a run over n >= 1 batches takes exactly n - 1 inter-transaction delays:
\* one after the outcome of each batch but the last, however that batch ended,
\* and none after the last.
C12_DelaysBetweenBatches ==
    /\ pc # "start" => txDelays = i
    /\ (pc = "returned" /\ n >= 1) => txDelays = n - 1
    /\ pc = "txDelay" => (i < n - 1 /\ (maxRetries >= 0 => Len(results) = i + 1))

C12_Witness ==
    /\ pc = "returned" /\ n = 2 /\ txDelays = 1 /\ Len(results) = 2
    /\ how = <<"other">>
    /\ results[1].status = "fulfilled"

\* C13: a fulfilled outcome carries the id a successful submission of the batch
\* returned, or an id a status lookup reported as exactly 'finalized'; a status
\* that is absent or below finalized never fulfils and leads to the retry path.
C13_FulfilledOnlyWhenFinal ==
    /\ (BatchEnded /\ Len(results) = i + 1 /\ results[i + 1].status = "fulfilled") =>
          \/ /\ hist.sendOk = 1
             /\ hist.recon = NoRecon
             /\ results[i + 1].value = SigOf(i, recentBlockhash)
          \/ /\ hist.sendOk = 0
             /\ hist.lastStatus = "finalized"
             /\ results[i + 1].value = hist.recon.extracted
             /\ IsLanded(results[i + 1].value)
    /\ hist.lastStatus \in {"null", "processed", "confirmed"} =>
          /\ attempt = hist.attempts
          /\ pc \in {"retryDelay", "getLatestBlockhash", "txDelay", "returned"}
          /\ BatchEnded => (Len(results) = i + 1 /\ results[i + 1].status = "rejected")

C13_Witness ==
    /\ hist.lastStatus = "confirmed" /\ pc = "retryDelay"
    /\ landed # {}

\* C14: when the height fetched in an attempt is greater than the last valid height
\* of the token, the attempt makes no submission and no status lookup, is counted
\* as a failed attempt and goes to the retry / exhaustion step; otherwise the
\* submission is made.
C14_LocalExpiry ==
    /\ hist.sends = hist.heightOk - (IF pc = "sendAndConfirmTransaction" THEN 1 ELSE 0)
    /\ pc = "sendAndConfirmTransaction" => hist.lastHeight = "ok"
    /\ hist.lastHeight = "exceeded" =>
          /\ error = LocalExpiry(i)
          /\ hist.lastStatus = "none"
          /\ attempt = hist.attempts
          /\ pc \in {"retryDelay", "getLatestBlockhash", "txDelay", "returned"}
          /\ attempt > maxRetries =>
                (Len(results) = i + 1 /\ results[i + 1] = Rejected(LocalExpiry(i)))

C14_Witness ==
    /\ hist.lastHeight = "exceeded" /\ pc = "retryDelay"
    /\ hist.sends = 0 /\ hist.lookups = 0 /\ attempt = 1

\* C15: every submission is made with the token fetched in the same attempt and
\* attached to the transaction; a token of an earlier attempt is never submitted.
C15_FreshToken ==
    pc = "sendAndConfirmTransaction" =>
        /\ hist.tokenAttempt = attempt + 1
        /\ hist.attempts = attempt + 1
        /\ recentBlockhash = hist.token
        /\ recentBlockhash \in Blockhashes

C15_Witness ==
    /\ pc = "sendAndConfirmTransaction" /\ attempt = 1 /\ hist.sends = 1
    /\ hist.tokenAttempt = 2

\* C16: for every batch the number of attempts, and so of submissions, is at most
\* maxRetries + 1, counted per batch: a batch that ends without success has had
\* all maxRetries + 1 attempts, whatever the earlier batches used.
C16_AttemptsPerBatch ==
    /\ hist.attempts <= (IF maxRetries >= 0 THEN maxRetries + 1 ELSE 0)
    /\ hist.sends <= hist.attempts
    /\ (maxRetries >= 0 /\ BatchEnded /\ hist.sendOk = 0 /\ hist.recon = NoRecon) =>
          hist.attempts = maxRetries + 1

C16_Witness ==
    /\ i = 1 /\ how = <<"failedAll">> /\ maxRetries = 1
    /\ hist.attempts = 2 /\ hist.sends = 2

\* C17: after a failed attempt that is not resolved as finalized, exactly one
\* inter-attempt delay is taken before the next attempt when attempts remain, and
\* none after the attempt that exhausts the retries.
C17_RetryDelay ==
    maxRetries >= 0 =>
        /\ hist.retryDelays =
              (IF pc = "retryDelay" \/ attempt > maxRetries THEN attempt - 1 ELSE attempt)
        /\ pc = "retryDelay" => (attempt <= maxRetries /\ Len(results) = i)

C17_Witness ==
    /\ pc = "returned" /\ maxRetries = 1 /\ attempt = 2 /\ hist.retryDelays = 1
    /\ results[i + 1].status = "rejected"

\* C18: for maxRetries >= 0, when every call and delay completes, the call ends
\* with every batch in a terminal state: once executeTransactions has ended, each
\* batch has its outcome.
C18_EndsWithAllTerminal ==
    (maxRetries >= 0 /\ pc \in {"returned", "raised"}) => Len(results) = n

\* C19: signature is non-null only after the submission returned, so it is null
\* whenever the handler runs: the branch of line 111 is never taken, and a typed
\* expiry error is looked up only when its message carries an id.
C19_SignatureNullInHandler ==
    /\ signature # NULL => (success /\ hist.sendOk = 1 /\ BatchEnded)
    /\ pc = "getSignatureStatus" =>
          /\ signature = NULL
          /\ errorSignature # NULL
          /\ isErrorWithMessage(error)
          /\ errorSignature = SignatureMatch(error.message)
    /\ (isTransactionExpiredBlockheightExceededError(error)
        /\ SignatureMatch(error.message) = NULL) =>
          (pc # "getSignatureStatus" /\ hist.lastStatus = "none")

C19_Witness ==
    /\ pc = "getSignatureStatus" /\ signature = NULL
    /\ isTransactionExpiredBlockheightExceededError(error)

\* C20: with a negative maxRetries no attempt and no network call is made and no
\* outcome is recorded: the returned list is empty whatever the number of
\* batches, and only the inter-transaction delays occur.
C20_NegativeRetries ==
    maxRetries < 0 =>
        /\ ~NetworkCall
        /\ pc \notin {"retryDelay", "raised"}
        /\ results = <<>>
        /\ hist = NoHist
        /\ (pc = "returned" /\ n >= 1) => txDelays = n - 1

C20_Witness ==
    /\ maxRetries < 0 /\ pc = "returned" /\ n = 2 /\ txDelays = 1
    /\ results = <<>>

----------------------------------------------------------------------------
(* Properties of generateTransactions, checked under SpecGen *)

\* C11: with a capacity of 0 or below, generateTransactions fails with
\* InvalidCapacity for every instruction list: it neither returns a list of
\* batches nor builds any batch.
C11_InvalidCapacityFails ==
    batchSize < 1 => (genPc # "returned" /\ result = <<>>)

RECURSIVE Flatten(_)
Flatten(txs) ==
    IF txs = <<>> THEN <<>> ELSE Head(txs).instructions \o Flatten(Tail(txs))

\* C10: for a list of N instructions and a capacity C >= 1, generateTransactions
\* returns ceil(N / C) batches of at most C instructions each, only the last of
\* which may be shorter than C, and whose concatenation is the input list in order.
C10_Partition ==
    (genPc = "returned" /\ batchSize >= 1) =>
        LET N == Len(dropList)
            C == batchSize
        IN  /\ Len(result) * C >= N
            /\ (Len(result) - 1) * C < N
            /\ \A k \in 1..Len(result) :
                   /\ Len(result[k].instructions) <= C
                   /\ k < Len(result) => Len(result[k].instructions) = C
            /\ Flatten(result) = [k \in 1..N |-> Transfer(dropList[k], amount)]

C10_Witness ==
    /\ genPc = "returned" /\ batchSize = 2 /\ Len(dropList) = 3
    /\ Len(result) = 2
    /\ Len(result[2].instructions) = 1

====
